---- MODULE Spec2Model ----
(***************************************************************************)
(* A model of the Sequencer's effect section (scripts/sections/effect.js)  *)
(* and of its sound manager (src/modules/sequencer-sound-manager.js).      *)
(*                                                                         *)
(* Strings are sequences of one-character strings, so that split, replace  *)
(* and the numeric conversion are computed as JavaScript computes them.    *)
(* Numbers are exact: a finite number is (n/d)*sqrt(r), which covers the   *)
(* rationals (r = 1) and the Euclidean distances of rational points; the   *)
(* non-finite doubles Infinity, -Infinity and NaN are kept as such.        *)
(* Rounding and the sign of zero are not modelled.                         *)
(*                                                                         *)
(* An operator that needs an intermediate value several times takes it as  *)
(* a parameter of a helper (FooWith), so that it is computed once.         *)
(***************************************************************************)
EXTENDS Integers, Sequences, FiniteSets, TLC

(* ------------------------------ numbers ------------------------------- *)

Abs(i) == IF i < 0 THEN -i ELSE i

Sign(i) == IF i < 0 THEN -1 ELSE IF i = 0 THEN 0 ELSE 1

RECURSIVE Gcd(_, _)
Gcd(a, b) == IF b = 0 THEN a ELSE Gcd(b, a % b)

\* the integer square root of r: the largest k with k*k <= r, by bisection
RECURSIVE Bisect(_, _, _)
Bisect(r, lo, hi) ==
    IF hi - lo <= 1 THEN lo
    ELSE IF ((lo + hi) \div 2) * ((lo + hi) \div 2) <= r
         THEN Bisect(r, (lo + hi) \div 2, hi)
         ELSE Bisect(r, lo, (lo + hi) \div 2)

\* 46340 is the largest integer whose square is a 32-bit integer
Root(r) == IF r <= 1 THEN r ELSE Bisect(r, 1, IF r < 46340 THEN r ELSE 46340)

NaN == [k |-> "nan"]

Inf(s) == [k |-> "inf", s |-> s]

Lowest(n, d, r, g) == [k |-> "fin", n |-> n \div g, d |-> d \div g, r |-> r]

Reduce(n, d, r) == Lowest(n, d, r, Gcd(Abs(n), d))

\* k is the integer square root of r: a square leaves the radicand
Norm(n, d, r, k) ==
    IF n = 0 \/ r = 0 THEN [k |-> "fin", n |-> 0, d |-> 1, r |-> 1]
    ELSE IF k * k = r THEN Reduce(n * k, d, 1)
    ELSE Reduce(n, d, r)

\* (n/d)*sqrt(r) in lowest terms, for d # 0 and r >= 0
Fin(n, d, r) == Norm(n * Sign(d), Abs(d), r, Root(r))

Q(n, d) == Fin(n, d, 1)

Num(i) == [k |-> "fin", n |-> i, d |-> 1, r |-> 1]

NumSign(a) == IF a.k = "inf" THEN a.s ELSE IF a.k = "fin" THEN Sign(a.n) ELSE 0

\* a * b as IEEE-754 multiplies
NumMul(a, b) ==
    IF a.k = "nan" \/ b.k = "nan" THEN NaN
    ELSE IF a.k = "inf" \/ b.k = "inf"
         THEN IF NumSign(a) * NumSign(b) = 0 THEN NaN ELSE Inf(NumSign(a) * NumSign(b))
         ELSE Fin(a.n * b.n, a.d * b.d, a.r * b.r)

\* a / b for a rational b
NumDiv(a, b) ==
    IF a.k = "nan" \/ b.k = "nan" THEN NaN
    ELSE IF b.k = "inf" THEN (IF a.k = "inf" THEN NaN ELSE Num(0))
    ELSE IF b.n = 0 THEN (IF NumSign(a) = 0 THEN NaN ELSE Inf(NumSign(a)))
    ELSE IF a.k = "inf" THEN Inf(a.s * Sign(b.n))
    ELSE Fin(a.n * b.d, a.d * b.n, a.r)

\* a + b and a - b for rationals
NumAdd(a, b) == Fin(a.n * b.d + b.n * a.d, a.d * b.d, 1)

NumNeg(a) ==
    IF a.k = "fin" THEN [a EXCEPT !.n = -a.n]
    ELSE IF a.k = "inf" THEN Inf(-a.s) ELSE NaN

NumSub(a, b) == Fin(a.n * b.d - b.n * a.d, a.d * b.d, 1)

\* a < b on finite numbers of one sign sg, by their squares n^2*r/d^2 with the
\* common factors gn, gd and gr of the numerators, denominators and radicands
\* taken out
SquareLt(a, b, sg, gn, gd, gr) ==
    sg * (a.n \div gn) * (a.n \div gn) * (a.r \div gr) * (b.d \div gd) * (b.d \div gd)
        < sg * (b.n \div gn) * (b.n \div gn) * (b.r \div gr) * (a.d \div gd) * (a.d \div gd)

\* a < b on finite numbers
FinLt(a, b) ==
    IF Sign(a.n) # Sign(b.n) \/ a.n = 0 THEN Sign(a.n) < Sign(b.n)
    ELSE SquareLt(a, b, Sign(a.n), Gcd(Abs(a.n), Abs(b.n)), Gcd(a.d, b.d), Gcd(a.r, b.r))

NumLt(a, b) ==
    IF a.k = "nan" \/ b.k = "nan" THEN FALSE
    ELSE IF a.k = "inf" THEN a.s = -1 /\ ~(b.k = "inf" /\ b.s = -1)
    ELSE IF b.k = "inf" THEN b.s = 1
    ELSE FinLt(a, b)

\* a === b as numbers (NaN differs from itself)
NumEq(a, b) ==
    IF a.k = "nan" \/ b.k = "nan" THEN FALSE
    ELSE IF a.k = "inf" \/ b.k = "inf" THEN a = b
    ELSE ~FinLt(a, b) /\ ~FinLt(b, a)

\* Math.max(a, b): NaN if either is NaN
NumMax(a, b) ==
    IF a.k = "nan" \/ b.k = "nan" THEN NaN
    ELSE IF NumLt(a, b) THEN b ELSE a

\* the square root of the rational sq = n/d: sqrt(n*d)/d
SquareRoot(sq) == Fin(1, sq.d, sq.n * sq.d)

\* Ray.distance of the ray from p to q
Distance(p, q) ==
    SquareRoot(NumAdd(NumMul(NumSub(q.x, p.x), NumSub(q.x, p.x)),
                      NumMul(NumSub(q.y, p.y), NumSub(q.y, p.y))))

\* the direction (ix, iy) in lowest integer terms, g being gcd(|ix|, |iy|)
Direction(ix, iy, g) == IF g = 0 THEN <<1, 0>> ELSE <<ix \div g, iy \div g>>

\* the rationals dx and dy as integers in the same proportion
Proportion(dx, dy) ==
    Direction(dx.n * dy.d, dy.n * dx.d, Gcd(Abs(dx.n * dy.d), Abs(dy.n * dx.d)))

\* Ray.angle: atan2(dy, dx), kept as the direction of the ray
Angle(p, q) == Proportion(NumSub(q.x, p.x), NumSub(q.y, p.y))

(* ------------------------------ strings ------------------------------- *)

Digits == {"0", "1", "2", "3", "4", "5", "6", "7", "8", "9"}

DigitValue(c) ==
    CASE c = "0" -> 0 [] c = "1" -> 1 [] c = "2" -> 2 [] c = "3" -> 3 [] c = "4" -> 4
      [] c = "5" -> 5 [] c = "6" -> 6 [] c = "7" -> 7 [] c = "8" -> 8 [] c = "9" -> 9

AllDigits(s) == \A i \in 1..Len(s) : s[i] \in Digits

StartsWithAt(s, pat, i) ==
    /\ i + Len(pat) - 1 <= Len(s)
    /\ \A j \in 1..Len(pat) : s[i + j - 1] = pat[j]

EndsWith(s, pat) == Len(pat) <= Len(s) /\ StartsWithAt(s, pat, Len(s) - Len(pat) + 1)

\* String.prototype.indexOf from position i on, 0 when pat does not occur
RECURSIVE IndexOf(_, _, _)
IndexOf(s, pat, i) ==
    IF i > Len(s) THEN 0
    ELSE IF StartsWithAt(s, pat, i) THEN i
    ELSE IndexOf(s, pat, i + 1)

ReplaceAt(s, pat, rep, i) ==
    IF i = 0 THEN s
    ELSE SubSeq(s, 1, i - 1) \o rep \o SubSeq(s, i + Len(pat), Len(s))

\* String.prototype.replace with a string pattern: the first occurrence only
ReplaceFirst(s, pat, rep) == ReplaceAt(s, pat, rep, IndexOf(s, pat, 1))

\* String.prototype.split with a one-character separator c, i being indexOf(c)
RECURSIVE SplitAt(_, _, _)
SplitAt(s, c, i) ==
    IF i = 0 THEN <<s>>
    ELSE <<SubSeq(s, 1, i - 1)>>
         \o SplitAt(SubSeq(s, i + 1, Len(s)), c, IndexOf(SubSeq(s, i + 1, Len(s)), <<c>>, 1))

Split(s, c) == SplitAt(s, c, IndexOf(s, <<c>>, 1))

LowerChar(c) == IF c = "X" THEN "x" ELSE IF c = "E" THEN "e" ELSE c

ToLowerCase(s) == [i \in 1..Len(s) |-> LowerChar(s[i])]

\* the StrDecimalLiteral grammar on digits, "." and "e":
\* (digits [. [digits]] | . digits) [e digits]
IsMantissaParts(parts) ==
    /\ Len(parts) <= 2
    /\ \A i \in 1..Len(parts) : AllDigits(parts[i])
    /\ \E i \in 1..Len(parts) : Len(parts[i]) > 0

IsDecimalParts(parts) ==
    /\ Len(parts) <= 2
    /\ IsMantissaParts(Split(parts[1], "."))
    /\ Len(parts) = 2 => (Len(parts[2]) > 0 /\ AllDigits(parts[2]))

\* what split leaves undefined
Undefined == <<"undefined">>

\* isNaN(x) of a string or of undefined: Number("") is 0, Number(undefined) is NaN
IsNaN(x) ==
    IF x = Undefined THEN TRUE
    ELSE ~(Len(x) = 0 \/ IsDecimalParts(Split(x, "e")))

RECURSIVE DigitsValue(_)
DigitsValue(s) ==
    IF Len(s) = 0 THEN 0
    ELSE 10 * DigitsValue(SubSeq(s, 1, Len(s) - 1)) + DigitValue(s[Len(s)])

RECURSIVE Pow10(_)
Pow10(e) == IF e = 0 THEN 1 ELSE 10 * Pow10(e - 1)

\* the value of the mantissa pieces mp with exponent exp
DecimalValue(mp, exp) ==
    IF Len(mp) = 2
    THEN Q(DigitsValue(mp[1] \o mp[2]) * Pow10(exp), Pow10(Len(mp[2])))
    ELSE Num(DigitsValue(mp[1]) * Pow10(exp))

NumberOfParts(ep) ==
    DecimalValue(Split(ep[1], "."), IF Len(ep) = 2 THEN DigitsValue(ep[2]) ELSE 0)

\* Number(x) of a string that is not NaN
ToNumber(x) == IF Len(x) = 0 THEN Num(0) ELSE NumberOfParts(Split(x, "e"))

(* ----------------------------- the scene ------------------------------ *)

\* canvas.grid.size of the active scene
CanvasGridSize == 100

None == [kind |-> "none"]

Point(x, y) == [x |-> x, y |-> y]

\* a Token: top-left corner, center, and data.width x data.height in grid units
TokenA ==
    [kind |-> "token", x |-> 100, y |-> 100, center |-> Point(200, 200),
     width |-> 2, height |-> 2]

\* a MeasuredTemplate of type cone: origin, and the end B of its ray
ConeA ==
    [kind |-> "template", t |-> "cone", x |-> 0, y |-> 0, center |-> Point(0, 0),
     B |-> Point(0, 300)]

NameRef(n) == [kind |-> "name", name |-> n]

PlainPoint(x, y) == [kind |-> "point", x |-> x, y |-> y]

\* what the caller hands to atLocation / rotateTowards / reachTowards
Locations ==
    {PlainPoint(0, 0), PlainPoint(100, 0), TokenA, ConeA, NameRef(<<"n">>)}

(* ---------------------------- the builder ----------------------------- *)

Str(s) == [k |-> "str", v |-> s]

Arr(l) == [k |-> "arr", v |-> l]

\* constructor(inSequence, inFile)
NewSection(inFile) ==
    [file |-> inFile, baseFolder |-> <<>>, from |-> None, to |-> None,
     scaleMin |-> None, scaleMax |-> None, anchor |-> None,
     randomRotation |-> FALSE, rotationOnly |-> TRUE, missed |-> FALSE,
     startPoint |-> 0, endPoint |-> 0, mustache |-> None, JB2A |-> FALSE,
     randomX |-> FALSE, randomY |-> FALSE, playbackRate |-> Num(1),
     gridSize |-> CanvasGridSize, overrides |-> <<>>, postOverrides |-> <<>>,
     name |-> <<>>, fadeIn |-> 0, fadeOut |-> 0]

name(sec, inName) == [sec EXCEPT !.name = inName]

WithSlash(s) == IF EndsWith(s, <<"/">>) THEN s ELSE s \o <<"/">>

baseFolder(sec, inBaseFolder) ==
    [sec EXCEPT !.baseFolder = WithSlash(ReplaceFirst(inBaseFolder, <<"\\">>, <<"/">>))]

file(sec, inFile) == [sec EXCEPT !.file = inFile]

playbackRate(sec, inNumber) == [sec EXCEPT !.playbackRate = inNumber]

missed(sec, inBool) == [sec EXCEPT !.missed = inBool]

startPoint(sec, inStartPoint) == [sec EXCEPT !.startPoint = inStartPoint]

endPoint(sec, inEndPoint) == [sec EXCEPT !.endPoint = inEndPoint]

gridSize(sec, inSize) == [sec EXCEPT !.gridSize = inSize]

JB2A(sec, inBool) ==
    [(IF inBool
      THEN endPoint(startPoint(gridSize(sec, 100), 200), 200)
      ELSE endPoint(startPoint(gridSize(sec, CanvasGridSize), 0), 0))
     EXCEPT !.JB2A = TRUE]

addOverride(sec, inFunc) == [sec EXCEPT !.overrides = Append(@, inFunc)]

addPostOverride(sec, inFunc) == [sec EXCEPT !.postOverrides = Append(@, inFunc)]

setMustache(sec, inMustache) == [sec EXCEPT !.mustache = inMustache]

\* _validateLocation: tokens, templates and strings are kept; of anything else
\* the x and y, each 0 when missing
validateLocation(inLocation) ==
    IF inLocation.kind \in {"token", "template", "name"} THEN inLocation
    ELSE [kind |-> "point",
          x |-> IF "x" \in DOMAIN inLocation THEN inLocation.x ELSE 0,
          y |-> IF "y" \in DOMAIN inLocation THEN inLocation.y ELSE 0]

atLocation(sec, inLocation) == [sec EXCEPT !.from = validateLocation(inLocation)]

rotateTowards(sec, inLocation) ==
    [sec EXCEPT !.to = validateLocation(inLocation), !.rotationOnly = TRUE]

reachTowards(sec, inLocation) ==
    [sec EXCEPT !.to = validateLocation(inLocation), !.rotationOnly = FALSE]

\* scale(inScaleMin, inScaleMax): inScaleMax is None when not given
scale(sec, inScaleMin, inScaleMax) ==
    [sec EXCEPT !.scaleMin = inScaleMin, !.scaleMax = inScaleMax]

\* anchor(inAnchor): a number, an object with x and/or y, or nothing (None)
anchor(sec, inAnchor) ==
    [sec EXCEPT !.anchor =
        IF inAnchor.kind = "number" THEN [x |-> inAnchor.v, y |-> inAnchor.v]
        ELSE [x |-> IF "x" \in DOMAIN inAnchor THEN inAnchor.x ELSE Q(1, 2),
              y |-> IF "y" \in DOMAIN inAnchor THEN inAnchor.y ELSE Q(1, 2)]]

center(sec) == anchor(sec, None)

randomRotation(sec, inBool) == [sec EXCEPT !.randomRotation = inBool]

randomizeMirrorX(sec, inBool) == [sec EXCEPT !.randomX = TRUE]

randomizeMirrorY(sec, inBool) == [sec EXCEPT !.randomY = TRUE]

fadeIn(sec, fadeDuration) == [sec EXCEPT !.fadeIn = fadeDuration]

fadeOut(sec, fadeDuration) == [sec EXCEPT !.fadeOut = fadeDuration]

(* ---------------------------- the sequence ---------------------------- *)

\* the owning Sequence's two caches: a position per (name, repetition) and the
\* dimensions per file path
NewSequence == [positions |-> <<>>, files |-> <<>>]

insertCachedPosition(seq, inName, inRepetition, inPosition) ==
    [seq EXCEPT !.positions = (<<inName, inRepetition>> :> inPosition) @@ @]

hasCachedPosition(seq, inName, inRepetition) ==
    <<inName, inRepetition>> \in DOMAIN seq.positions

getCachedPosition(seq, inName, inRepetition) == seq.positions[<<inName, inRepetition>>]

hasFileInCache(seq, filePath) == filePath \in DOMAIN seq.files

getFileFromCache(seq, filePath) == seq.files[filePath]

addFileToCache(seq, filePath, dims) == [seq EXCEPT !.files = (filePath :> dims) @@ @]

(* ----------------------------- the assets ----------------------------- *)

FileA == <<"a", ".", "w", "e", "b", "m">>

FileSized ==
    <<"f", "i", "r", "e", "_", "4", "0", "0", "x", "1", "0", "0", ".", "w", "e", "b", "m">>

FileExt ==
    <<"f", "i", "r", "e", "_", "2", "0", "0", "x", "1", "5", "0", ".", "e", "x", "t">>

FileWords ==
    <<"f", "i", "r", "e", "_", "a", "b", "c", "x", "d", "e", "f", ".", "e", "x", "t">>

FileBare == <<"f", "i", "r", "e", "_", "x", ".", "w", "e", "b", "m">>

FileTemplate == <<"%", ".", "w", "e", "b", "m">>

Folder == <<"b">>

\* the assets the measurement probe can load, with their pixel sizes; the probe
\* fails on any other path
Assets ==
    (FileA :> [x |-> Num(200), y |-> Num(100)])
    @@ ((<<"b", "/">> \o FileA) :> [x |-> Num(400), y |-> Num(100)])
    @@ (FileExt :> [x |-> Num(200), y |-> Num(150)])
    @@ (FileWords :> [x |-> Num(300), y |-> Num(100)])

\* Handlebars.compile(template)(context): "%" stands for the expression {{v}}
RECURSIVE Render(_, _)
Render(template, context) ==
    IF Len(template) = 0 THEN <<>>
    ELSE (IF Head(template) = "%" THEN context.v ELSE <<Head(template)>>)
         \o Render(Tail(template), context)

(* -------------------------- location resolution ----------------------- *)

\* the number of sample points, besides the lower end, of a uniform draw
Steps == 1

\* lib.random_float_between(lo, hi): a draw u of 0..Steps picks lo + (hi-lo)*u/Steps
randomFloatBetween(lo, hi, u) == NumAdd(lo, NumMul(NumSub(hi, lo), Q(u, Steps)))

\* target?.data?.width ?? 1 and target?.data?.height ?? 1
DataWidth(target) == IF "width" \in DOMAIN target THEN target.width ELSE 1

DataHeight(target) == IF "height" \in DOMAIN target THEN target.height ELSE 1

\* no offset from the edge of the target
TokenOffsetZero == Num(0)

\* canvas.grid.size / 5
TokenOffset == Q(CanvasGridSize, 5)

HalfGrid == Q(CanvasGridSize, 2)

\* lines 562-567 for the half extents of the target
MissedBy(position, halfWidth, halfHeight, d) ==
    IF d.XorY
    THEN Point(NumAdd(position.x,
                   NumMul(NumAdd(halfWidth, randomFloatBetween(TokenOffset, HalfGrid, d.u1)),
                          Num(d.flipX))),
               NumAdd(position.y,
                   NumMul(randomFloatBetween(TokenOffset, NumAdd(halfHeight, HalfGrid), d.u2),
                          Num(d.flipY))))
    ELSE Point(NumAdd(position.x,
                   NumMul(randomFloatBetween(TokenOffset, NumAdd(halfWidth, HalfGrid), d.u1),
                          Num(d.flipX))),
               NumAdd(position.y,
                   NumMul(NumAdd(halfHeight, randomFloatBetween(TokenOffset, HalfGrid, d.u2)),
                          Num(d.flipY))))

\* _calculateMissedPosition; d holds the draws: XorY, flipX, flipY and two floats
calculateMissedPosition(target, position, isMissed, d) ==
    IF ~isMissed THEN position
    ELSE MissedBy(position, Q(DataWidth(target) * CanvasGridSize, 2),
                  Q(DataHeight(target) * CanvasGridSize, 2), d)

NumPoint(p) == Point(Num(p.x), Num(p.y))

\* x: loc?.center?.x ?? loc.x ?? 0, and y alike; None stands for false, and a
\* cached position is a point already
CenterOf(loc) ==
    IF "center" \in DOMAIN loc THEN NumPoint(loc.center)
    ELSE IF "kind" \in DOMAIN loc
         THEN Point(IF "x" \in DOMAIN loc THEN Num(loc.x) ELSE Num(0),
                    IF "y" \in DOMAIN loc THEN Num(loc.y) ELSE Num(0))
         ELSE loc

\* to instanceof MeasuredTemplate, of type cone or ray
IsDirected(loc) ==
    "kind" \in DOMAIN loc /\ loc.kind = "template" /\ loc.t \in {"cone", "ray"}

\* whether a string location has no cached position at this repetition
Unresolved(seq, loc, rep) ==
    loc.kind = "name" /\ ~hasCachedPosition(seq, loc.name, rep)

\* a string location replaced by the cached position it names
Deref(seq, loc, rep) ==
    IF loc.kind = "name" THEN getCachedPosition(seq, loc.name, rep) ELSE loc

\* lines 524-544 for the locations f and t, strings resolved
PositionsOf(f, t, isMissed, d) ==
    [err    |-> "",
     from   |-> calculateMissedPosition(f, CenterOf(f), t = None /\ isMissed, d),
     to     |-> IF t = None THEN None
                ELSE calculateMissedPosition(
                         t, IF IsDirected(t) THEN NumPoint(t.B) ELSE CenterOf(t), isMissed, d),
     target |-> IF t = None THEN f ELSE t,
     base   |-> IF t = None THEN CenterOf(f)
                ELSE IF IsDirected(t) THEN NumPoint(t.B) ELSE CenterOf(t)]

\* _calculatePositions(from, to, missed) at repetition rep:
\* [err, from, to, target, base], to = None standing for false; target and base
\* are the location the missed offset is applied to and its position before
calculatePositions(seq, from, to, isMissed, rep, d) ==
    IF Unresolved(seq, from, rep) \/ Unresolved(seq, to, rep)
    THEN [err |-> "UnresolvedName"]
    ELSE PositionsOf(Deref(seq, from, rep), Deref(seq, to, rep), isMissed, d)

(* ------------------------------ the hooks ----------------------------- *)

\* the functions handed to addOverride / addPostOverride: (effect, data) -> data
Hooks == {"shift", "twice", "throw"}

\* what a hook returns for the descriptor it is given
ApplyHook(h, data) ==
    CASE h = "shift" -> [data EXCEPT !.position.x = NumAdd(@, Num(10))]
      [] h = "twice" -> [data EXCEPT !.position.x = NumMul(@, Num(2))]
      [] OTHER       -> data

\* one call of a hook: the list it is in, its place there, the hook, the
\* descriptor it was given and the one it returned (None when it threw)
Call(phase, i, hook, given, returned) ==
    [phase |-> phase, i |-> i, hook |-> hook, given |-> given, returned |-> returned]

Called(call, rest) == [rest EXCEPT !.calls = <<call>> \o @]

RECURSIVE Chained(_, _, _, _, _)
RECURSIVE RunHooks(_, _, _, _)

\* every hook is handed the descriptor the first one was given
ChainedFromFirst(hooks, i, data, phase, out) ==
    Called(Call(phase, i, hooks[i], data, out), RunHooks(hooks, i + 1, data, phase))

\* hook i was given data and returned out: the hooks after it run on out
Chained(hooks, i, data, phase, out) ==
    Called(Call(phase, i, hooks[i], data, out), RunHooks(hooks, i + 1, out, phase))

\* for (let override of hooks) data = await override(this, data), from hook i on:
\* [err, data, calls], calls being what each hook was given and what it returned
RunHooks(hooks, i, data, phase) ==
    IF i > Len(hooks) THEN [err |-> "", data |-> data, calls |-> <<>>]
    ELSE IF hooks[i] = "throw"
         THEN [err |-> "Hook", data |-> data, calls |-> <<Call(phase, i, hooks[i], data, None)>>]
         ELSE Chained(hooks, i, data, phase, ApplyHook(hooks[i], data))

(* --------------------------- file dimensions -------------------------- *)

DotWebm == <<".", "w", "e", "b", "m">>

Last(parts) == parts[Len(parts)]

Pieces(sp) == <<sp[1], IF Len(sp) >= 2 THEN sp[2] ELSE Undefined>>

\* the extension is left on the name
DimensionStringUnstripped(filePath) ==
    Pieces(Split(ToLowerCase(Last(Split(filePath, "_"))), "x"))

\* lines 478-479: the first two pieces of the last "_" token of the path, split
\* on "x"
DimensionString(filePath) ==
    Pieces(Split(ToLowerCase(Last(Split(ReplaceFirst(filePath, DotWebm, <<>>), "_"))), "x"))

\* line 480
BothNumeric(dimensionString) == ~IsNaN(dimensionString[1]) /\ ~IsNaN(dimensionString[2])

\* lines 481-484
ParsedDimensions(dimensionString) ==
    [x |-> ToNumber(dimensionString[1]), y |-> ToNumber(dimensionString[2])]

FileDimensions(err, dims, seq, probed, cacheRead) ==
    [err |-> err, dims |-> dims, seq |-> seq, probed |-> probed, cacheRead |-> cacheRead]

\* what the probe answers is not put into the cache
DimensionsOfUnstored(isJB2A, seq, filePath, dimensionString) ==
    IF isJB2A /\ BothNumeric(dimensionString)
    THEN FileDimensions("", ParsedDimensions(dimensionString), seq, <<>>, FALSE)
    ELSE IF hasFileInCache(seq, filePath)
    THEN FileDimensions("", getFileFromCache(seq, filePath), seq, <<>>, TRUE)
    ELSE IF filePath \in DOMAIN Assets
    THEN FileDimensions("", Assets[filePath], seq, <<filePath>>, TRUE)
    ELSE FileDimensions("AssetMeasurement", None, seq, <<filePath>>, TRUE)

\* lines 477-492 for the path and the pieces of its name
DimensionsOf(isJB2A, seq, filePath, dimensionString) ==
    IF isJB2A /\ BothNumeric(dimensionString)
    THEN FileDimensions("", ParsedDimensions(dimensionString), seq, <<>>, FALSE)
    ELSE IF hasFileInCache(seq, filePath)
    THEN FileDimensions("", getFileFromCache(seq, filePath), seq, <<>>, TRUE)
    ELSE IF filePath \in DOMAIN Assets
    THEN FileDimensions("", Assets[filePath], addFileToCache(seq, filePath, Assets[filePath]),
                        <<filePath>>, TRUE)
    ELSE FileDimensions("AssetMeasurement", None, seq, <<filePath>>, TRUE)

\* _getFileDimensions(inFile): [err, dims, seq, probed, cacheRead]; probed holds the
\* paths handed to lib.getDimensions, cacheRead tells whether the cache was consulted
getFileDimensions(sec, seq, inFile) ==
    DimensionsOf(sec.JB2A, seq, sec.baseFolder \o inFile,
                 DimensionString(sec.baseFolder \o inFile))

\* the end point is not taken off
getTrueLengthUntrimmed(sec, inDimensions) == NumSub(inDimensions.x, Num(sec.startPoint))

\* _getTrueLength
getTrueLength(sec, inDimensions) ==
    NumSub(NumSub(inDimensions.x, Num(sec.startPoint)), Num(sec.endPoint))

\* the floor of scale.y in _calculateHitVector
MinScaleY == Q(4, 10)

\* dims are the dimensions the hit vector was computed from, None when it was not
HitVector(err, data, seq, probed, cacheRead, dims) ==
    [err |-> err, data |-> data, seq |-> seq, probed |-> probed,
     cacheRead |-> cacheRead, dims |-> dims]

\* lines 506-509
Stretched(sec, data, dims, scaleX) ==
    [data EXCEPT !.scale = [x |-> scaleX, y |-> NumMax(MinScaleY, scaleX)],
                 !.anchor.x = NumDiv(Num(sec.startPoint), dims.x)]

\* lines 504-511 for the dimensions fd of the file
HitWith(sec, data, fd) ==
    IF fd.err # ""
    THEN HitVector(fd.err, data, fd.seq, fd.probed, fd.cacheRead, None)
    ELSE HitVector("", Stretched(sec, data, fd.dims,
                                 NumDiv(data.distance, getTrueLength(sec, fd.dims))),
                   fd.seq, fd.probed, fd.cacheRead, fd.dims)

\* _calculateHitVector(data): [err, data, seq, probed, cacheRead, dims]
calculateHitVector(sec, seq, data) ==
    IF data.distance = Num(0)
    THEN HitVector("", data, seq, <<>>, FALSE, None)
    ELSE HitWith(sec, data, getFileDimensions(sec, seq, data.file.v))

(* ----------------------------- _sanitizeData -------------------------- *)

NumXY(x, y) == [x |-> x, y |-> y]

\* the sample points of Math.random() * Math.PI: a draw rot of 0..Turns-1 is the
\* rotation rot/Turns * PI
Turns == 2

\* lines 358-383: rotation is atan2 of the direction dir plus turn * PI
InitialData(sec) ==
    [file |-> sec.file,
     position |-> Point(Num(0), Num(0)),
     anchor |-> IF sec.anchor # None THEN sec.anchor ELSE NumXY(Num(0), Num(0)),
     scale |-> NumXY(Num(1), Num(1)),
     angle |-> 0,
     rotation |-> [dir |-> <<1, 0>>, turn |-> Num(0)],
     speed |-> 0,
     playbackRate |-> sec.playbackRate,
     distance |-> Num(0),
     fadeIn |-> sec.fadeIn,
     fadeOut |-> sec.fadeOut]

\* lines 389-394 and 400-405: the anchor of an effect that has an origin
AimedAnchor(sec) ==
    IF sec.anchor # None THEN sec.anchor
    ELSE IF sec.to # None THEN NumXY(Num(0), Q(1, 2))
    ELSE NumXY(Q(1, 2), Q(1, 2))

\* lines 385-415 for the positions cp
Toward(sec, data, cp) ==
    IF sec.to = None
    THEN [data EXCEPT !.anchor = AimedAnchor(sec), !.position = cp.from]
    ELSE [data EXCEPT !.anchor = AimedAnchor(sec), !.position = cp.from,
                      !.distance = Distance(cp.from, cp.to),
                      !.rotation.dir = Angle(cp.from, cp.to)]

\* line 417
Turned(sec, data, d) ==
    [data EXCEPT !.rotation.turn = IF sec.randomRotation THEN Q(d.rot, Turns) ELSE Num(0)]

\* where the missed offset was applied: to which location, from which position,
\* on which primary axis, and the position it gave
MissedAt(sec, cp, d) ==
    IF sec.missed
    THEN [target |-> cp.target, base |-> cp.base, XorY |-> d.XorY,
          result |-> IF sec.to = None THEN cp.from ELSE cp.to]
    ELSE None

AimedWith(sec, d, cp) ==
    IF cp.err # ""
    THEN [err |-> cp.err, data |-> None, missed |-> None, origin |-> None, target |-> None]
    ELSE [err |-> "", data |-> Turned(sec, Toward(sec, InitialData(sec), cp), d),
          missed |-> MissedAt(sec, cp, d), origin |-> cp.from, target |-> cp.to]

\* lines 358-417: [err, data, missed, origin, target], origin and target being the
\* two positions _calculatePositions returned
aim(sec, seq, rep, d) ==
    IF sec.from = None
    THEN [err |-> "", data |-> Turned(sec, InitialData(sec), d), missed |-> None,
          origin |-> None, target |-> None]
    ELSE AimedWith(sec, d, calculatePositions(seq, sec.from, sec.to, sec.missed, rep, d))

Uniform(v) == NumXY(v, v)

\* lines 441-450: the configured scale as a factor per axis
scaleFactor(sec, d) ==
    IF sec.scaleMin # None /\ sec.scaleMin.kind = "number"
    THEN Uniform(IF sec.scaleMax # None /\ sec.scaleMax.v # Num(0)
                 THEN randomFloatBetween(sec.scaleMin.v, sec.scaleMax.v, d.sc)
                 ELSE sec.scaleMin.v)
    ELSE NumXY(IF "x" \in DOMAIN sec.scaleMin THEN sec.scaleMin.x ELSE Num(1),
               IF "y" \in DOMAIN sec.scaleMin THEN sec.scaleMin.y ELSE Num(1))

\* the ratio the other way round
gridFactorInverse(sec) == NumDiv(Num(sec.gridSize), Num(CanvasGridSize))

\* canvas.grid.size / this._gridSize
gridFactor(sec) == NumDiv(Num(CanvasGridSize), Num(sec.gridSize))

\* lines 423-425
PickedFile(inFile, d) == IF inFile.k = "arr" THEN Str(inFile.v[d.pick]) ELSE inFile

\* lines 427-430
RenderedFile(sec, inFile) ==
    IF sec.mustache # None THEN Str(Render(inFile.v, sec.mustache)) ELSE inFile

\* lines 432-435
GridScaled(data, factor) ==
    [data EXCEPT !.scale = NumXY(NumMul(@.x, factor), NumMul(@.y, factor))]

\* lines 423-435
Normalized(sec, data, d) ==
    GridScaled([data EXCEPT !.file = RenderedFile(sec, PickedFile(@, d))], gridFactor(sec))

\* lines 437-439
Hit(sec, seq, data) ==
    IF ~sec.rotationOnly THEN calculateHitVector(sec, seq, data)
    ELSE HitVector("", data, seq, <<>>, FALSE, None)

\* lines 452-463 for the scale factor
Finished(sec, data, d, factor) ==
    [data EXCEPT
        !.scale = NumXY(NumMul(NumMul(@.x, factor.x),
                               Num(IF sec.randomX /\ d.mx THEN -1 ELSE 1)),
                        NumMul(NumMul(@.y, factor.y),
                               Num(IF sec.randomY /\ d.my THEN -1 ELSE 1))),
        !.file = Str(sec.baseFolder \o @.v)]

\* anchor is the descriptor's anchor as the hit vector left it
Shaped(sec, d, hv) ==
    [err |-> hv.err,
     data |-> IF hv.err = "" THEN Finished(sec, hv.data, d, scaleFactor(sec, d))
              ELSE hv.data,
     seq |-> hv.seq, probed |-> hv.probed, cacheRead |-> hv.cacheRead, dims |-> hv.dims,
     anchor |-> hv.data.anchor, path |-> sec.baseFolder \o hv.data.file.v]

\* lines 423-463: the file, the grid normalization, the hit vector, the scale, the
\* mirroring and the base folder: [err, data, seq, probed, cacheRead, dims, anchor,
\* path], path being the path whose dimensions the hit vector asks for
shape(sec, seq, data, d) == Shaped(sec, d, Hit(sec, seq, Normalized(sec, data, d)))

Stem(segs) == Split(Last(segs), ".")[1]

\* this._name is not looked at
getNameFromFile(sec, data) ==
    IF Len(data.file.v) > 0 THEN Stem(Split(data.file.v, "/")) ELSE <<"-", "1">>

\* _getName(data)
getName(sec, data) ==
    IF Len(sec.name) > 0 THEN sec.name
    ELSE IF Len(data.file.v) > 0 THEN Stem(Split(data.file.v, "/"))
    ELSE <<"-", "1">>

\* what _sanitizeData did: the error that ended it ("" when it returned), the
\* descriptor it returned, the caches, this._anchor, each hook's call, the paths
\* probed, whether the file cache was consulted, the dimensions and the path of
\* the hit vector, where the missed offset was applied, the two resolved positions,
\* the name the position went under
Outcome(err, data, seq, anchorNow, calls, sh, a, recorded) ==
    [err |-> err, data |-> data, seq |-> seq, anchor |-> anchorNow, calls |-> calls,
     probed |-> sh.probed, cacheRead |-> sh.cacheRead, dims |-> sh.dims,
     path |-> sh.path, missed |-> a.missed, origin |-> a.origin, target |-> a.target,
     recorded |-> recorded]

Unshaped == [probed |-> <<>>, cacheRead |-> FALSE, dims |-> None, path |-> <<>>]

\* this._anchor after the hit vector: the descriptor's anchor is the same object
\* when an anchor was configured (line 382)
AnchorAfter(sec, sh) == IF sec.anchor # None THEN sh.anchor ELSE None

\* line 469
Recorded(sec, rep, a, pre, sh, post, nm) ==
    Outcome("", post.data, insertCachedPosition(sh.seq, nm, rep, post.data.position),
            AnchorAfter(sec, sh), pre.calls \o post.calls, sh, a,
            [name |-> nm, rep |-> rep])

AfterPost(sec, rep, a, pre, sh, post) ==
    IF post.err # ""
    THEN Outcome(post.err, None, sh.seq, AnchorAfter(sec, sh), pre.calls \o post.calls,
                 sh, a, None)
    ELSE Recorded(sec, rep, a, pre, sh, post, getName(sec, post.data))

AfterShape(sec, rep, a, pre, sh) ==
    IF sh.err # ""
    THEN Outcome(sh.err, None, sh.seq, AnchorAfter(sec, sh), pre.calls, sh, a, None)
    ELSE AfterPost(sec, rep, a, pre, sh, RunHooks(sec.postOverrides, 1, sh.data, "post"))

AfterPre(sec, seq, rep, d, a, pre) ==
    IF pre.err # ""
    THEN Outcome(pre.err, None, seq, sec.anchor, pre.calls, Unshaped, a, None)
    ELSE AfterShape(sec, rep, a, pre, shape(sec, seq, pre.data, d))

AfterAim(sec, seq, rep, d, a) ==
    IF a.err # ""
    THEN Outcome(a.err, None, seq, sec.anchor, <<>>, Unshaped, a, None)
    ELSE AfterPre(sec, seq, rep, d, a, RunHooks(sec.overrides, 1, a.data, "pre"))

\* _sanitizeData() at repetition rep with the draws d
sanitizeData(sec, seq, rep, d) == AfterAim(sec, seq, rep, d, aim(sec, seq, rep, d))

(* --------------------------- the state machine ------------------------ *)

VARIABLES
    sec,        \* the fields of the effect section being declared or run
    seq,        \* the caches of the sequence that owns it
    rep,        \* this._currentRepetition of the section's next _sanitizeData
    calls,      \* declarative calls made so far
    sections,   \* effect sections created so far
    last,       \* the last _sanitizeData: the section, caches and repetition it
                \* started from, its draws and what it produced
    asked,      \* the inBool values handed to randomizeMirrorX / randomizeMirrorY
                \* of the section
    probes,     \* the calls of lib.getDimensions in the sequence, in order
    sounds,     \* the Sound objects the audio layer has handed out
    running,    \* SequenceManager.RunningSounds: data.id -> index into sounds
    plays,      \* the calls of SequencerSoundManager.play, each with its position
    hooks,      \* the calls of Hooks.callAll, in order
    pushed,     \* the messages handed to sequencerSocket.executeForOthers
    ending      \* the calls of endSounds and endAllSounds: what was registered when
                \* each was made and the Sounds it called stop() on

effectVars == <<sec, seq, rep, calls, sections, last, asked, probes>>

soundVars == <<sounds, running, plays, hooks, pushed, ending>>

vars ==
    <<sec, seq, rep, calls, sections, last, asked, probes,
      sounds, running, plays, hooks, pushed, ending>>

\* declarative calls in one run
MaxCalls == 2

\* effect sections in one sequence
MaxSections == 2

\* repetitions of one section
MaxRepetitions == 2

Files == {FileA}

SizedFiles == {FileSized, FileExt, FileWords, FileBare}

\* the draws one _sanitizeData can make: the missed offset (XorY, flipX, flipY,
\* u1, u2), the random rotation, the picked file, the sampled scale, the mirrors
DrawsFor(s) ==
    LET isMissed == s.missed /\ s.from # None
    IN  [XorY  : IF isMissed THEN BOOLEAN ELSE {FALSE},
         flipX : IF isMissed THEN {-1, 1} ELSE {1},
         flipY : IF isMissed THEN {-1, 1} ELSE {1},
         u1    : IF isMissed THEN 0..Steps ELSE {0},
         u2    : IF isMissed THEN 0..Steps ELSE {0},
         rot   : IF s.randomRotation THEN 0..(Turns - 1) ELSE {0},
         pick  : IF s.file.k = "arr" THEN 1..Len(s.file.v) ELSE {1},
         sc    : IF s.scaleMin # None /\ s.scaleMin.kind = "number" /\ s.scaleMax # None
                 THEN 0..Steps ELSE {0},
         mx    : IF s.randomX THEN BOOLEAN ELSE {FALSE},
         my    : IF s.randomY THEN BOOLEAN ELSE {FALSE}]

\* a section as one chain of the sequence declares it up to its aim
Declarations(files) ==
    {NewSection(Str(f)) : f \in files}
    \cup {atLocation(NewSection(Str(f)), TokenA) : f \in files}
    \cup {reachTowards(atLocation(NewSection(Str(f)), PlainPoint(0, 0)), q) :
            f \in files, q \in {PlainPoint(100, 0), TokenA}}
    \cup {rotateTowards(atLocation(NewSection(Str(f)), PlainPoint(0, 0)), q) :
            f \in files, q \in {PlainPoint(100, 0)}}

\* sections reaching from (0,0) to (100,0)
Reaching(files) ==
    {reachTowards(atLocation(NewSection(Str(f)), PlainPoint(0, 0)), PlainPoint(100, 0)) :
        f \in files}

NoSounds ==
    /\ sounds = <<>>
    /\ running = <<>>
    /\ plays = <<>>
    /\ hooks = <<>>
    /\ pushed = <<>>
    /\ ending = <<>>

\* no mirror call yet on either axis
NotAsked == [x |-> {}, y |-> {}]

InitWith(decls) ==
    /\ sec \in decls
    /\ seq = NewSequence
    /\ rep = 0
    /\ calls = 0
    /\ sections = 1
    /\ last = None
    /\ asked = NotAsked
    /\ probes = <<>>
    /\ NoSounds

Init == InitWith(Declarations(Files))

\* a builder call changes the section
Built(s) ==
    /\ rep = 0
    /\ calls < MaxCalls
    /\ sec' = s
    /\ calls' = calls + 1
    /\ UNCHANGED <<seq, rep, sections, last, probes>>
    /\ UNCHANGED soundVars

\* a builder call other than the mirror calls
Build(s) == Built(s) /\ UNCHANGED asked

Name == \E n \in {<<"n">>} : Build(name(sec, n))

BaseFolder == \E b \in {Folder} : Build(baseFolder(sec, b))

File == \E f \in {Arr(<<FileA, FileSized>>), Str(FileTemplate)} : Build(file(sec, f))

Missed == \E b \in {TRUE} : Build(missed(sec, b))

Jb2a == \E b \in BOOLEAN : Build(JB2A(sec, b))

AddOverride == \E h \in Hooks : Build(addOverride(sec, h))

AddPostOverride == \E h \in Hooks : Build(addPostOverride(sec, h))

SetMustache == \E m \in {[v |-> <<"a">>]} : Build(setMustache(sec, m))

AtLocation ==
    \E l \in {PlainPoint(0, 0), TokenA, NameRef(<<"n">>), NameRef(<<"a">>)} :
        Build(atLocation(sec, l))

RotateTowards == \E l \in {PlainPoint(100, 0), NameRef(<<"n">>)} : Build(rotateTowards(sec, l))

ReachTowards == \E l \in {PlainPoint(100, 0), TokenA, ConeA} : Build(reachTowards(sec, l))

StartPoint == \E n \in {50} : Build(startPoint(sec, n))

EndPoint == \E n \in {150} : Build(endPoint(sec, n))

ScaleInputs ==
    {<<[kind |-> "number", v |-> Num(1)], [kind |-> "number", v |-> Num(3)]>>,
     <<[kind |-> "object", x |-> Num(2)], None>>}

Scale == \E i \in ScaleInputs : Build(scale(sec, i[1], i[2]))

AnchorInputs == {[kind |-> "number", v |-> Num(1)], [kind |-> "object", x |-> Q(1, 4)]}

Anchor == \E a \in AnchorInputs : Build(anchor(sec, a))

Center == Build(center(sec))

RandomRotation == \E b \in {TRUE} : Build(randomRotation(sec, b))

RandomizeMirrorX ==
    \E b \in BOOLEAN :
        /\ Built(randomizeMirrorX(sec, b))
        /\ asked' = [asked EXCEPT !.x = @ \cup {b}]

RandomizeMirrorY ==
    \E b \in BOOLEAN :
        /\ Built(randomizeMirrorY(sec, b))
        /\ asked' = [asked EXCEPT !.y = @ \cup {b}]

GridSize == \E n \in {200} : Build(gridSize(sec, n))

\* the calls of lib.getDimensions one _sanitizeData made: the path, and whether
\* the probe answered
Probes(res) ==
    [i \in DOMAIN res.probed |->
        [path |-> res.probed[i], ok |-> res.err # "AssetMeasurement"]]

\* what one _sanitizeData leaves behind: the caches, and this._anchor
Finalized(d, res) ==
    /\ last' = [sec |-> sec, seq |-> seq, rep |-> rep, d |-> d, res |-> res]
    /\ seq' = res.seq
    /\ sec' = [sec EXCEPT !.anchor = res.anchor]
    /\ probes' = probes \o Probes(res)

\* the sequence runs the section's next repetition
SanitizeData ==
    /\ rep < MaxRepetitions
    /\ \E d \in DrawsFor(sec) : Finalized(d, sanitizeData(sec, seq, rep, d))
    /\ rep' = rep + 1
    /\ UNCHANGED <<calls, sections, asked>>
    /\ UNCHANGED soundVars

\* sequence.effect(inFile): the next section of the same sequence
Effect ==
    /\ rep > 0
    /\ calls < MaxCalls
    /\ sections < MaxSections
    /\ sec' \in {NewSection(Str(f)) : f \in Files}
    /\ rep' = 0
    /\ calls' = calls + 1
    /\ sections' = sections + 1
    /\ last' = None
    /\ asked' = NotAsked
    /\ UNCHANGED <<seq, probes>>
    /\ UNCHANGED soundVars

EffectNext ==
    \/ Name \/ BaseFolder \/ File \/ Missed \/ Jb2a \/ AddOverride \/ AddPostOverride
    \/ SetMustache \/ AtLocation \/ RotateTowards \/ ReachTowards \/ StartPoint
    \/ EndPoint \/ Scale \/ Anchor \/ Center \/ RandomRotation \/ RandomizeMirrorX
    \/ RandomizeMirrorY \/ GridSize \/ SanitizeData \/ Effect

(* --------------------------- the sound manager ------------------------ *)

\* calls of SequencerSoundManager.play in one run
MaxPlays == 2

\* calls of endSounds and endAllSounds in one run
MaxEnds == 1

\* the data.id of the sounds played: strings, as _validateFilters asks of the
\* ids it is given
SoundIds == {"s1", "s2"}

\* data.duration in ms, 0 when none is given
Durations == {0, 500}

\* what the caller hands to play(data, push): delete, id, duration
SoundData ==
    [id : SoundIds, delete : BOOLEAN, duration : Durations]

False == [k |-> "false"]

Value(v) == [k |-> "value", v |-> v]

\* a call of play: its data, where it stands ("awaiting" the audio layer, or
\* "resolved"), the Sound it started (0 when none) and what its promise resolved to
PlayCall(data, pc, sound, result) ==
    [data |-> data, pc |-> pc, sound |-> sound, result |-> result]

\* a Sound of the audio layer: playing or not, the event it emitted first ("" when
\* none yet), the events it emitted after that one, whether its setTimeout is
\* pending, and whether the listener of line 127 has run
NewSound(data) ==
    [sound_id |-> data.id, playing |-> TRUE, emitted |-> "", again |-> {},
     timer |-> data.duration # 0, settled |-> FALSE]

\* what is handed to RunningSounds.get: a data.id, or a Sound object
IdKey(id) == [k |-> "id", v |-> id]

SoundKey(s) == [k |-> "sound", v |-> s]

\* RunningSounds.add / delete / get
addRunning(map, id, sound) == (id :> sound) @@ map

deleteRunning(map, id) == [i \in DOMAIN map \ {id} |-> map[i]]

hasRunning(map, id) == id \in DOMAIN map

\* RunningSounds.get(key), 0 for undefined: the entries are kept under the
\* data.id of line 92, and a Sound object is none of them
getRunning(map, key) ==
    IF key.k = "id" /\ hasRunning(map, key.v) THEN map[key.v] ELSE 0

\* the Sounds of the registry
Registered(map) == {map[id] : id \in DOMAIN map}

RECURSIVE Ascending(_)
Ascending(S) ==
    IF S = {} THEN <<>>
    ELSE LET m == CHOOSE x \in S : \A y \in S : x <= y
         IN  <<m>> \o Ascending(S \ {m})

\* RunningSounds.values(): the Sounds in the order they were added
valuesRunning(map) == Ascending(Registered(map))

\* line 34
Pushed(data, push) ==
    IF push THEN Append(pushed, <<"PLAY_SOUND", data.id>>) ELSE pushed

\* play(data, push) up to the first await of _play: lines 33-35 and 45-47
Play ==
    \E data \in SoundData, push \in BOOLEAN :
        /\ Len(plays) < MaxPlays
        /\ pushed' = Pushed(data, push)
        /\ IF data.delete
           THEN /\ plays' = Append(plays, PlayCall(data, "resolved", 0, False))
                /\ hooks' = hooks
           ELSE /\ plays' = Append(plays, PlayCall(data, "awaiting", 0, None))
                /\ hooks' = Append(hooks, <<"createSequencerSound", data.id>>)
        /\ UNCHANGED <<sounds, running, ending>>
        /\ UNCHANGED effectVars

\* lines 87-135 of the call p once the audio layer answered with a Sound: the
\* Sound is registered, its timer and its listener set, and the promise of play
\* resolves to data.duration
Started(p) ==
    /\ sounds' = Append(sounds, NewSound(plays[p].data))
    /\ running' = addRunning(running, plays[p].data.id, Len(sounds) + 1)
    /\ plays' = [plays EXCEPT ![p] = PlayCall(@.data, "resolved", Len(sounds) + 1,
                                             Value(@.data.duration))]
    /\ UNCHANGED <<hooks, pushed, ending>>

\* line 87: the audio layer answered with nothing
NotStarted(p) ==
    /\ plays' = [plays EXCEPT ![p] = PlayCall(@.data, "resolved", 0, False)]
    /\ UNCHANGED <<sounds, running, hooks, pushed, ending>>

\* _play resumes after await game.audio.play(...)
Resume ==
    \E p \in DOMAIN plays, answered \in BOOLEAN :
        /\ plays[p].pc = "awaiting"
        /\ IF answered THEN Started(p) ELSE NotStarted(p)
        /\ UNCHANGED effectVars

\* the callback of the promise leaves the entry in RunningSounds
EmittedKept(s, ev, timerNow) ==
    /\ sounds' = [sounds EXCEPT ![s] = [@ EXCEPT !.playing = FALSE, !.emitted = ev,
                                                 !.timer = timerNow, !.settled = TRUE]]
    /\ running' = running
    /\ hooks' = Append(hooks, <<"endedSequencerSound", sounds[s].sound_id>>)
    /\ UNCHANGED <<plays, pushed, ending>>

\* the Sound s emits ev: the promise of line 127 resolves on the first event, and
\* its callback deletes data.id from RunningSounds and calls the hook
Emitted(s, ev, timerNow) ==
    /\ sounds' = [sounds EXCEPT ![s] = [@ EXCEPT !.playing = FALSE, !.emitted = ev,
                                                 !.timer = timerNow, !.settled = TRUE]]
    /\ running' = deleteRunning(running, sounds[s].sound_id)
    /\ hooks' = Append(hooks, <<"endedSequencerSound", sounds[s].sound_id>>)
    /\ UNCHANGED <<plays, pushed, ending>>

\* lines 121-125: the timer of the Sound s fires and calls stop(). A Sound that
\* has ended may or may not emit stop once more; the promise of line 127 is
\* resolved already, so its callback does not run again
Timeout ==
    \E s \in DOMAIN sounds, echo \in BOOLEAN :
        /\ sounds[s].timer
        /\ IF sounds[s].playing
           THEN Emitted(s, "stop", FALSE)
           ELSE /\ sounds' = [sounds EXCEPT ![s] =
                                [@ EXCEPT !.timer = FALSE,
                                          !.again = IF echo THEN @ \cup {"stop"} ELSE @]]
                /\ UNCHANGED <<running, plays, hooks, pushed, ending>>
        /\ UNCHANGED effectVars

\* the audio of the Sound s runs out
Ended ==
    \E s \in DOMAIN sounds :
        /\ sounds[s].playing
        /\ Emitted(s, "end", sounds[s].timer)
        /\ UNCHANGED effectVars

\* the elements of a sequence
Range(f) == {f[i] : i \in DOMAIN f}

\* lines 253-258: the Sounds that _endSounds(keys) calls stop() on
StoppedBy(map, keys) == {getRunning(map, key) : key \in Range(keys)} \ {0}

\* the Sounds of stopped emit stop: each is settled, and the callbacks of lines
\* 130-133 run one after the other
AllStopped(stopped) ==
    /\ sounds' = [i \in DOMAIN sounds |->
                    IF i \in stopped
                    THEN [sounds[i] EXCEPT !.playing = FALSE, !.emitted = "stop",
                                           !.settled = TRUE]
                    ELSE sounds[i]]
    /\ running' = [id \in DOMAIN running \ {sounds[i].sound_id : i \in stopped} |->
                    running[id]]
    /\ hooks' = hooks \o [k \in 1..Cardinality(stopped) |->
                    <<"endedSequencerSound", sounds[Ascending(stopped)[k]].sound_id>>]

\* lines 242-245 and 263-266: the keys go to the other clients and to _endSounds
EndKeys(op, ids, keys, toOthers) ==
    /\ Len(ending) < MaxEnds
    /\ pushed' = IF toOthers THEN Append(pushed, <<"END_SOUNDS", keys>>) ELSE pushed
    /\ AllStopped(StoppedBy(running, keys))
    /\ ending' = Append(ending, [op |-> op, ids |-> ids,
                                 registered |-> Registered(running),
                                 stopped |-> StoppedBy(running, keys)])
    /\ UNCHANGED plays
    /\ UNCHANGED effectVars

\* _filterSounds({sounds: ids}), lines 209-215: the registered Sounds whose
\* sound_id is one of ids
filterSounds(ids) ==
    SelectSeq(valuesRunning(running), LAMBDA s : sounds[s].sound_id \in ids)

\* the sound_id of each of them, line 241
IdsOf(found) == [k \in DOMAIN found |-> IdKey(sounds[found[k]].sound_id)]

\* endSounds({sounds: ids}, push), lines 237-246
EndSounds ==
    \E ids \in SUBSET SoundIds, push \in BOOLEAN, isGM \in BOOLEAN :
        EndKeys("endSounds", ids, IdsOf(filterSounds(ids)),
                filterSounds(ids) # <<>> /\ push /\ isGM)

\* the Sound objects that line 262 takes for ids
SoundKeys(found) == [k \in DOMAIN found |-> SoundKey(found[k])]

\* endAllSounds(push), lines 261-267
EndAllSounds ==
    \E push \in BOOLEAN, isGM \in BOOLEAN :
        EndKeys("endAllSounds", {}, SoundKeys(valuesRunning(running)), push /\ isGM)

SoundNext == Play \/ Resume \/ Timeout \/ Ended \/ EndSounds \/ EndAllSounds

(* ------------------------- the specifications ------------------------- *)

Next == EffectNext

\* one sequence of effect sections
Spec == Init /\ [][Next]_vars

\* sections whose asset names carry dimensions
InitFiles == InitWith(Reaching(SizedFiles))

SpecFiles == InitFiles /\ [][Next]_vars

\* the sound manager beside an effect section that is never run
InitSound == InitWith({NewSection(Str(FileA))})

SpecSound == InitSound /\ [][SoundNext]_vars

(* ------------------------------ properties ---------------------------- *)

\* a _sanitizeData has run on the current section
Ran == last # None

\* ... and returned a descriptor
Returned == Ran /\ last.res.err = ""

ReachAB == reachTowards(atLocation(NewSection(Str(FileA)), PlainPoint(0, 0)), PlainPoint(100, 0))

Unscaled(s) ==
    /\ s.scaleMin = None
    /\ ~s.randomX /\ ~s.randomY
    /\ s.overrides = <<>> /\ s.postOverrides = <<>>

TrimmedLength(s, width) == NumSub(NumSub(width, Num(s.startPoint)), Num(s.endPoint))

Stretch(s, res, D, W, L) ==
    /\ NumEq(res.data.scale.x, NumDiv(D, L))
    /\ NumEq(res.data.scale.y, NumMax(Q(4, 10), NumDiv(D, L)))
    /\ NumEq(res.data.anchor.x, NumDiv(Num(s.startPoint), W))

Reached(s, res) ==
    /\ ~s.rotationOnly /\ s.from # None /\ s.to # None
    /\ Unscaled(s)
    /\ res.err = ""
    /\ ~NumEq(Distance(res.origin, res.target), Num(0))

ReachLaw(s, res) ==
    Reached(s, res) =>
        /\ res.dims # None
        /\ (~NumEq(TrimmedLength(s, res.dims.x), Num(0)) =>
               Stretch(s, res, Distance(res.origin, res.target), res.dims.x,
                       TrimmedLength(s, res.dims.x)))

ReachExample(s, res) ==
    (s = ReachAB /\ res.err = "") =>
        /\ res.data.scale = NumXY(Q(1, 2), Q(1, 2))
        /\ res.data.anchor.x = Num(0)

\* C1: a reach-mode _sanitizeData with an origin and a target at distance D # 0, no
\* scale, no mirroring and no hooks, on an asset of width W with trims S and E,
\* W-S-E # 0, returns scale.x = D/(W-S-E), scale.y = max(0.4, scale.x) and
\* anchor.x = S/W; from (0,0) to (100,0) with W = 200 and S = E = 0 that is scale
\* (0.5, 0.5) and anchor.x = 0.
C1_ReachScale == Ran => (ReachLaw(last.sec, last.res) /\ ReachExample(last.sec, last.res))

\* the trimmed case: W = 200, S = 0, E = 150, D = 100
C1_Witness ==
    /\ Returned
    /\ last.sec = endPoint(ReachAB, 150)
    /\ last.res.data.scale = NumXY(Num(2), Num(2))

Doubled(s) == [s EXCEPT !.gridSize = 2 * @]

\* the same _sanitizeData of the section with twice the grid size
Twin == sanitizeData(Doubled(last.sec), last.seq, last.rep, last.d)

Halved(half, whole) ==
    /\ NumEq(half.x, NumDiv(whole.x, Num(2)))
    /\ NumEq(half.y, NumDiv(whole.y, Num(2)))

SameScale(a, b) == NumEq(a.x, b.x) /\ NumEq(a.y, b.y)

TwinHalves(res, twin) == twin.err = "" /\ Halved(twin.data.scale, res.data.scale)

TwinLaw(s, res, twin) ==
    /\ twin.err = ""
    /\ IF s.rotationOnly \/ NumEq(res.data.distance, Num(0))
       THEN Halved(twin.data.scale, res.data.scale)
       ELSE SameScale(twin.data.scale, res.data.scale)

\* C2 as stated: in every mode, the final scale of the effect with grid size 2g
\* is half, on both axes, that of the effect with grid size g, all else equal.
C2_HalvedInEveryMode == Returned => TwinHalves(last.res, Twin)

\* C2: in rotation-only mode, and in reach mode at distance 0, the final scale of
\* the effect with grid size 2g is half, on both axes, that of the effect with grid
\* size g; in reach mode at a nonzero distance the two final scales are equal.
C2_HalvedUnlessStretched == Returned => TwinLaw(last.sec, last.res, Twin)

C2_Witness ==
    /\ Returned
    /\ last.sec.rotationOnly /\ last.sec.to # None
    /\ last.sec.gridSize = 200
    /\ last.res.data.scale = NumXY(Q(1, 2), Q(1, 2))
    /\ Twin.data.scale = NumXY(Q(1, 4), Q(1, 4))

\* C3 as stated: the returned anchor is the configured one on both axes, in
\* every mode (the hooks of this model leave the anchor alone).
C3_AnchorKept ==
    (Returned /\ last.sec.anchor # None) =>
        /\ NumEq(last.res.data.anchor.x, last.sec.anchor.x)
        /\ NumEq(last.res.data.anchor.y, last.sec.anchor.y)

IsName(loc) == loc.kind = "name"

Known(cache, loc, r) == IsName(loc) => <<loc.name, r>> \in DOMAIN cache.positions

ResolvedTo(cache, loc, r, point) == IsName(loc) => point = cache.positions[<<loc.name, r>>]

\* the finalized effect's position is recorded under its name and repetition
RecordedUnder(s, r, res) ==
    /\ res.recorded # None
    /\ (Len(s.name) > 0 => res.recorded.name = s.name)
    /\ res.recorded.rep = r
    /\ <<res.recorded.name, r>> \in DOMAIN res.seq.positions
    /\ res.seq.positions[<<res.recorded.name, r>>] = res.data.position

RoundTrip(s, cache, r, res) ==
    IF Known(cache, s.from, r) /\ Known(cache, s.to, r)
    THEN /\ res.err # "UnresolvedName"
         /\ ResolvedTo(cache, s.from, r, res.origin)
         /\ ResolvedTo(cache, s.to, r, res.target)
    ELSE /\ res.err = "UnresolvedName"
         /\ res.data = None
         /\ res.seq = cache

Measured(res) == res.dims # None \/ res.err = "AssetMeasurement"

\* the dimensions of a path ending in asset are x by y, read off the name alone
ReadOffName(res, asset, x, y) ==
    (EndsWith(res.path, asset) /\ Measured(res)) =>
        /\ res.dims = [x |-> Num(x), y |-> Num(y)]
        /\ res.probed = <<>>
        /\ ~res.cacheRead

\* the dimensions of a path ending in asset are asked of the cache
AskedOfCache(res, asset) == (EndsWith(res.path, asset) /\ Measured(res)) => res.cacheRead

\* C5 as stated: with JB2A on, "fire_200x150.ext" gives 200 by 150 without the
\* cache or the probe, and "fire_abcxdef.ext" goes to the cache and the probe.
C5_AnyExtension ==
    (Ran /\ last.sec.JB2A) =>
        /\ ReadOffName(last.res, FileExt, 200, 150)
        /\ AskedOfCache(last.res, FileWords)

\* C5: with JB2A on, the first ".webm" is taken off the path and the last "_" token
\* is split on "x": "fire_400x100.webm" gives 400 by 100 and "fire_x.webm" 0 by 0
\* without the cache or the probe, while "fire_200x150.ext" and "fire_abcxdef.ext"
\* go to the cache and the probe.
C5_WebmOnly ==
    (Ran /\ last.sec.JB2A) =>
        /\ ReadOffName(last.res, FileSized, 400, 100)
        /\ ReadOffName(last.res, FileBare, 0, 0)
        /\ AskedOfCache(last.res, FileExt)
        /\ AskedOfCache(last.res, FileWords)

C5_Witness ==
    /\ Ran
    /\ last.sec.JB2A
    /\ last.res.path = FileSized
    /\ last.res.dims = [x |-> Num(400), y |-> Num(100)]
    /\ last.res.probed = <<>>

Extent(target, side) == (IF side \in DOMAIN target THEN target[side] ELSE 1) * CanvasGridSize

Gap(a, b) == IF NumLt(a, b) THEN NumSub(b, a) ELSE NumSub(a, b)

Beyond(gap, extent) == NumLt(Q(extent, 2), gap)

Within(gap, extent) ==
    /\ ~NumLt(gap, Q(CanvasGridSize, 5))
    /\ ~NumLt(NumAdd(Q(extent, 2), Q(CanvasGridSize, 2)), gap)

Outside(m, dx, dy, w, h) ==
    IF m.XorY THEN Beyond(dx, w) /\ Within(dy, h) ELSE Beyond(dy, h) /\ Within(dx, w)

MissedLaw(m) ==
    Outside(m, Gap(m.result.x, m.base.x), Gap(m.result.y, m.base.y),
            Extent(m.target, "width"), Extent(m.target, "height"))

\* C6: whenever the missed offset is applied to a location of width w and height h,
\* the point it gives is more than w/2 from the location on X when X is the primary
\* axis, more than h/2 on Y when Y is; on the other axis it is at least a fifth of
\* the grid size away and at most half the extent plus half the grid size.
C6_MissedOutside == (Ran /\ last.res.missed # None) => MissedLaw(last.res.missed)

\* a miss of the 2x2 token by the least offset on X
C6_Witness ==
    /\ Ran
    /\ last.res.missed # None
    /\ last.res.missed.target = TokenA
    /\ last.res.missed.XorY
    /\ last.res.missed.result.x = Num(320)

\* C7 as stated: a reach-mode _sanitizeData whose asset measures exactly
\* startPoint + endPoint in width fails and returns no descriptor.
C7_ZeroLengthFails ==
    (Ran /\ ~last.sec.rotationOnly /\ last.res.dims # None
         /\ NumEq(TrimmedLength(last.sec, last.res.dims.x), Num(0))) =>
        /\ last.res.err # ""
        /\ last.res.data = None

\* C8 as stated: after _sanitizeData the section's fields are what they were before.
C8_OptionsUntouched == Ran => sec = last.sec

HooksOf(s, phase) == IF phase = "pre" THEN s.overrides ELSE s.postOverrides

\* the call after c is the next hook of the same list, given what c returned, or
\* the first post hook after the last pre hook
Follows(s, c, n) ==
    \/ /\ n.phase = c.phase
       /\ n.i = c.i + 1
       /\ n.given = c.returned
    \/ /\ c.phase = "pre" /\ c.i = Len(s.overrides)
       /\ n.phase = "post" /\ n.i = 1

InOrder(s, log) ==
    /\ \A j \in DOMAIN log :
          /\ log[j].i \in DOMAIN HooksOf(s, log[j].phase)
          /\ log[j].hook = HooksOf(s, log[j].phase)[log[j].i]
    /\ \A j \in 1..(Len(log) - 1) : Follows(s, log[j], log[j + 1])
    /\ Len(log) > 0 =>
          log[1].i = 1 /\ (log[1].phase = "post" => s.overrides = <<>>)

\* a pre hook sees the file as configured and the scale untouched; a post hook
\* sees one file path under the base folder
Placed(s, c) ==
    IF c.phase = "pre"
    THEN c.given.file = s.file /\ c.given.scale = NumXY(Num(1), Num(1))
    ELSE c.given.file.k = "str" /\ StartsWithAt(c.given.file.v, s.baseFolder, 1)

AllRan(s, res) ==
    /\ Len(res.calls) = Len(s.overrides) + Len(s.postOverrides)
    /\ Len(s.postOverrides) > 0 => res.data = res.calls[Len(res.calls)].returned
    /\ res.recorded # None
    /\ res.seq.positions[<<res.recorded.name, res.recorded.rep>>] = res.data.position

HookLaw(s, cache, res) ==
    /\ InOrder(s, res.calls)
    /\ \A j \in DOMAIN res.calls : Placed(s, res.calls[j])
    /\ IF res.err = "" THEN AllRan(s, res) ELSE res.seq.positions = cache.positions

HasFinished(p) == p.sound # 0 /\ sounds[p.sound].emitted # ""

\* C10 as stated: the promise of play(data) is not resolved before the Sound it
\* started has emitted stop or end.
C10_ResolvesWhenFinished ==
    \A p \in DOMAIN plays :
        (plays[p].pc = "resolved" /\ plays[p].sound # 0) => HasFinished(plays[p])

\* the descriptor the last _sanitizeData would have returned on the draws d
Redrawn(d) == sanitizeData(last.sec, last.seq, last.rep, d).data

\* every mirror call on the axis was given b
OnlyAsked(bs, b) == bs = {b}

\* C11 as stated: the mirror of an axis is enabled exactly when the calls of
\* randomizeMirrorX / randomizeMirrorY were given true, and after calls that were
\* given false only, the scale of the descriptor on that axis is what it is
\* without the mirror, whatever is drawn.
C11_MirrorOnlyWhenEnabled ==
    /\ OnlyAsked(asked.x, TRUE) => sec.randomX
    /\ OnlyAsked(asked.y, TRUE) => sec.randomY
    /\ OnlyAsked(asked.x, FALSE) => ~sec.randomX
    /\ OnlyAsked(asked.y, FALSE) => ~sec.randomY
    /\ (Returned /\ OnlyAsked(asked.x, FALSE)) =>
            last.res.data.scale.x = Redrawn([last.d EXCEPT !.mx = FALSE]).scale.x
    /\ (Returned /\ OnlyAsked(asked.y, FALSE)) =>
            last.res.data.scale.y = Redrawn([last.d EXCEPT !.my = FALSE]).scale.y

\* what the probe did to the cache: an answer is stored under the path, a failure
\* leaves the cache as it was
Stored(cache, res, filePath) ==
    IF res.err = "AssetMeasurement"
    THEN res.seq.files = cache.files
    ELSE /\ hasFileInCache(res.seq, filePath)
         /\ getFileFromCache(res.seq, filePath) = Assets[filePath]

\* one _sanitizeData started from cache: the probe is called only for a path the
\* cache lacks, and only then does the file cache change
ProbeLaw(cache, res) ==
    /\ \A i \in DOMAIN res.probed :
        /\ ~hasFileInCache(cache, res.probed[i])
        /\ Stored(cache, res, res.probed[i])
    /\ res.probed = <<>> => res.seq.files = cache.files

\* the path of the probe j was handed to the probe before, at i
Again(i, j) == i < j /\ probes[i].path = probes[j].path

\* C12 as stated: the probe is called only on a cache miss, its answer is stored
\* and its failure leaves the cache unchanged, and no path is handed to the probe
\* twice in one sequence.
C12_ProbedOncePerPath ==
    /\ Ran => ProbeLaw(last.seq, last.res)
    /\ \A i, j \in DOMAIN probes : ~Again(i, j)

\* C12: the probe is called only on a cache miss, its answer is stored and its
\* failure leaves the cache unchanged; a path the probe has answered for is never
\* handed to it again in the sequence, a path it failed on may be.
C12_AnsweredOncePerPath ==
    /\ Ran => ProbeLaw(last.seq, last.res)
    /\ \A i, j \in DOMAIN probes : Again(i, j) => ~probes[i].ok

\* the second repetition reads from the cache what the first one had measured
C12_Witness ==
    /\ Returned
    /\ last.rep = 1
    /\ probes = <<[path |-> FileA, ok |-> TRUE]>>
    /\ last.res.path = FileA
    /\ last.res.cacheRead
    /\ last.res.probed = <<>>
    /\ last.res.dims = Assets[FileA]


\* no two calls of play were given the same data.id
DistinctIds ==
    \A p, q \in DOMAIN plays : p # q => plays[p].data.id # plays[q].data.id

\* the calls of Hooks.callAll(hook, data) for the data of that id
HookCalls(hook, id) == Cardinality({i \in DOMAIN hooks : hooks[i] = <<hook, id>>})

\* the Sound s is in RunningSounds under its id until it emits stop or end, is
\* not after that, and endedSequencerSound was called once for it by then
Tracked(s) ==
    IF sounds[s].emitted = ""
    THEN /\ hasRunning(running, sounds[s].sound_id)
         /\ running[sounds[s].sound_id] = s
         /\ HookCalls("endedSequencerSound", sounds[s].sound_id) = 0
    ELSE /\ ~hasRunning(running, sounds[s].sound_id)
         /\ HookCalls("endedSequencerSound", sounds[s].sound_id) = 1

\* the call p has put nothing into RunningSounds
RegistersNothing(p) ==
    /\ p.sound = 0
    /\ ~hasRunning(running, p.data.id)
    /\ HookCalls("endedSequencerSound", p.data.id) = 0

\* C13: with distinct data.id, a started Sound is in RunningSounds under its id
\* until it emits stop or end and is removed then, endedSequencerSound is called
\* exactly once for it however many events it emits, and a call with data.delete
\* or one the audio layer gave no Sound registers nothing.
C13_RegisteredUntilEnded ==
    DistinctIds =>
        /\ \A s \in DOMAIN sounds : Tracked(s)
        /\ \A p \in DOMAIN plays :
            (plays[p].data.delete \/ plays[p].result = False) => RegistersNothing(plays[p])
        /\ \A id \in DOMAIN running : \E s \in DOMAIN sounds : running[id] = s

\* one Sound has emitted end and then stop and is gone, with one call of the hook,
\* while the other is still registered
C13_Witness ==
    /\ DistinctIds
    /\ Len(sounds) = 2
    /\ sounds[1].emitted = "end"
    /\ "stop" \in sounds[1].again
    /\ ~hasRunning(running, sounds[1].sound_id)
    /\ HookCalls("endedSequencerSound", sounds[1].sound_id) = 1
    /\ sounds[2].emitted = ""
    /\ running[sounds[2].sound_id] = 2

\* the registered Sounds whose id is one of ids
Chosen(e) == {s \in e.registered : sounds[s].sound_id \in e.ids}

\* C14 as stated: endAllSounds calls stop() on every Sound registered when it is
\* called, and endSounds({sounds: ids}) on exactly the registered Sounds whose id
\* is in ids.
C14_EndAllStopsAll ==
    \A i \in DOMAIN ending :
        /\ ending[i].op = "endAllSounds" => ending[i].stopped = ending[i].registered
        /\ ending[i].op = "endSounds" => ending[i].stopped = Chosen(ending[i])
====
